---- MODULE Spec2Model ----
(***************************************************************************)
(* Model of the lambda_calculus package: terms, the three substitution     *)
(* visitors (checked, renaming/counting, unsafe), the tracing decorator    *)
(* and the normal-order beta normalising visitor.                          *)
(*                                                                         *)
(* Terms are records that mirror the dataclasses of terms/__init__.py.     *)
(* Variable names are strings, as CountingSubstitution requires; a fresh   *)
(* name is built by string concatenation exactly like f"{bound}{i}".       *)
(***************************************************************************)
EXTENDS Integers, Sequences, FiniteSets, TLC

VARIABLES
    input,            \* normaliser: the term handed to accept(BetaNormalisingVisitor())
    stack,            \* normaliser: the suspended generators, outermost first
    status,           \* normaliser: "running" | "exhausted" (StopIteration seen)
    yielded,          \* normaliser: TRUE once a step has been yielded
    conversion,       \* normaliser: Conversion of the last step ("ALPHA" | "BETA" | "NONE")
    lastTerm,         \* normaliser: term of the last step (the input before any step)
    prevTerm,         \* normaliser: term preceding the last step in the sequence
    oddSteps,         \* normaliser: TRUE iff the number of steps yielded so far is odd
    term,             \* substitution: the visited term
    variable,         \* substitution: visitor.variable
    value,            \* substitution: visitor.value
    operation,        \* substitution: which visitor ran last ("none" at first)
    result,           \* substitution: [raised |-> BOOLEAN, term |-> Term] of the last accept
    bound_variables,  \* CheckedSubstitution.bound_variables after the last accept
    history           \* outcomes (raised or not) of the accepts made on one checked visitor

vars == <<input, stack, status, yielded, conversion, lastTerm, prevTerm, oddSteps,
          term, variable, value, operation, result, bound_variables, history>>

normVars == <<input, stack, status, yielded, conversion, lastTerm, prevTerm, oddSteps>>

substVars == <<term, variable, value, operation, result, bound_variables, history>>

\* the element of a singleton; recursive operators take their arguments
\* through it so that TLC evaluates each argument once, before the call
The(S) == CHOOSE r \in S : TRUE

-----------------------------------------------------------------------------
(* Terms: terms/__init__.py *)

Variable(name) == [tag |-> "var", name |-> name]

Abstraction(bound, body) == [tag |-> "abs", bound |-> bound, body |-> body]

Application(abstraction, argument) ==
    [tag |-> "app", abstraction |-> abstraction, argument |-> argument]

isVariable(t) == t.tag = "var"

isAbstraction(t) == t.tag = "abs"

isApplication(t) == t.tag = "app"

RECURSIVE free_variables(_)
free_variables(t) ==
    CASE isVariable(t) -> {t.name}
      [] isAbstraction(t) -> free_variables(t.body) \ {t.bound}
      [] isApplication(t) ->
            free_variables(t.abstraction) \cup free_variables(t.argument)

RECURSIVE bound_variables_of(_)
bound_variables_of(t) ==
    CASE isVariable(t) -> {}
      [] isAbstraction(t) -> bound_variables_of(t.body) \cup {t.bound}
      [] isApplication(t) ->
            bound_variables_of(t.abstraction) \cup bound_variables_of(t.argument)

is_redex(t) == isAbstraction(t.abstraction)

\* mutant: only the term itself is looked at, not its subterms
is_beta_normal_form_of_root(t) == ~(isApplication(t) /\ isAbstraction(t.abstraction))

RECURSIVE is_beta_normal_form(_)
is_beta_normal_form(t) ==
    CASE isVariable(t) -> TRUE
      [] isAbstraction(t) -> is_beta_normal_form(t.body)
      [] isApplication(t) ->
            /\ ~is_redex(t)
            /\ is_beta_normal_form(t.abstraction)
            /\ is_beta_normal_form(t.argument)

-----------------------------------------------------------------------------
(* Deferrable substitutions: visitors/substitution/__init__.py, unsafe.py, *)
(* renaming.py.  A visitor is a record holding its class and its slots;    *)
(* None is the absent continuation.                                        *)

None == [cls |-> "None"]

\* UnsafeSubstitution.from_substitution(variable, value)
Unsafe_from_substitution(var, val) ==
    [cls |-> "UnsafeSubstitution", variable |-> var, value |-> val,
     free_variables |-> free_variables(val)]

\* CountingSubstitution.__init__(variable, value, free_variables)
CountingSubstitution(var, val, fvs) ==
    [cls |-> "CountingSubstitution", variable |-> var, value |-> val,
     free_variables |-> fvs]

Counting_from_substitution(var, val) ==
    CountingSubstitution(var, val, free_variables(val))

\* visit_variable of UnsafeSubstitution and of RenamingSubstitution (same code)
Deferrable_visit_variable(visitor, t) ==
    IF t.name # visitor.variable THEN t ELSE visitor.value

Unsafe_defer_abstraction_descends(visitor, abstraction) ==
    [substituted |-> abstraction, body_visitor |-> visitor]

Unsafe_defer_abstraction(visitor, abstraction) ==
    IF abstraction.bound = visitor.variable
        THEN [substituted |-> abstraction, body_visitor |-> None]
        ELSE [substituted |-> abstraction, body_visitor |-> visitor]

\* next(filterfalse(lambda v: v in used_variables, candidates)) over count(i)
RECURSIVE first_unused(_, _, _)
first_unused(bound, used_variables, i) ==
    LET candidate == bound \o ToString(i)
    IN  IF candidate \notin used_variables
            THEN candidate
            ELSE first_unused(bound, used_variables, i + 1)

RECURSIVE Deferrable_accept(_, _)

\* mutant: the colliding binder is left as it is
prevent_collision_keeps_binder(visitor, abstraction) == abstraction

\* mutant: the first candidate is taken without looking at the used names
prevent_collision_first_candidate(visitor, abstraction) ==
    IF abstraction.bound \in visitor.free_variables
        THEN Abstraction(
                 abstraction.bound \o ToString(1),
                 Deferrable_accept(
                     abstraction.body,
                     Unsafe_from_substitution(
                         abstraction.bound,
                         Variable(abstraction.bound \o ToString(1)))))
        ELSE abstraction

\* mutant: the occurrences are renamed, the binder keeps its name
prevent_collision_keeps_name_of_binder(visitor, abstraction) ==
    IF abstraction.bound \in visitor.free_variables
        THEN Abstraction(
                 abstraction.bound,
                 Deferrable_accept(
                     abstraction.body,
                     Unsafe_from_substitution(
                         abstraction.bound,
                         Variable(first_unused(
                             abstraction.bound,
                             bound_variables_of(abstraction.body)
                                 \cup free_variables(abstraction)
                                 \cup visitor.free_variables,
                             1)))))
        ELSE abstraction

\* mutant: the binder is renamed whether it binds a variable of the value
\* or not
prevent_collision_always_renames(visitor, abstraction) ==
    The({Abstraction(
             fresh,
             Deferrable_accept(
                 abstraction.body,
                 Unsafe_from_substitution(abstraction.bound, Variable(fresh))))
         : fresh \in {first_unused(
                          abstraction.bound,
                          bound_variables_of(abstraction.body)
                              \cup free_variables(abstraction)
                              \cup visitor.free_variables,
                          1)}})

prevent_collision(visitor, abstraction) ==
    IF abstraction.bound \in visitor.free_variables
        THEN LET used_variables ==
                     bound_variables_of(abstraction.body)
                         \cup free_variables(abstraction)
                         \cup visitor.free_variables
                 fresh == first_unused(abstraction.bound, used_variables, 1)
             IN  Abstraction(
                     fresh,
                     Deferrable_accept(
                         abstraction.body,
                         Unsafe_from_substitution(abstraction.bound, Variable(fresh))))
        ELSE abstraction

Renaming_defer_abstraction(visitor, abstraction) ==
    IF abstraction.bound = visitor.variable
        THEN [substituted |-> abstraction, body_visitor |-> None]
        ELSE [substituted |-> prevent_collision(visitor, abstraction),
              body_visitor |-> visitor]

defer_abstraction(visitor, abstraction) ==
    IF visitor.cls = "UnsafeSubstitution"
        THEN Unsafe_defer_abstraction(visitor, abstraction)
        ELSE Renaming_defer_abstraction(visitor, abstraction)

\* the same for UnsafeSubstitution and RenamingSubstitution
defer_application(visitor, application) ==
    [substituted |-> application,
     abstraction_visitor |-> visitor,
     argument_visitor |-> visitor]

\* visit_abstraction after the call of defer_abstraction, which returned d
Deferrable_abstraction_result(d) ==
    IF d.body_visitor = None
        THEN d.substituted
        ELSE Abstraction(
                 d.substituted.bound,
                 Deferrable_accept(d.substituted.body, d.body_visitor))

Deferrable_visit_abstraction(visitor, abstraction) ==
    Deferrable_abstraction_result(defer_abstraction(visitor, abstraction))

\* mutant: the argument is visited by the visitor of the abstraction
Deferrable_application_result_one_visitor(d) ==
    IF d.abstraction_visitor = None
        THEN d.substituted
        ELSE Application(
                 Deferrable_accept(d.substituted.abstraction, d.abstraction_visitor),
                 Deferrable_accept(d.substituted.argument, d.abstraction_visitor))

\* visit_application after the call of defer_application, which returned d
Deferrable_application_result(d) ==
    LET abstraction ==
            IF d.abstraction_visitor = None
                THEN d.substituted.abstraction
                ELSE Deferrable_accept(d.substituted.abstraction, d.abstraction_visitor)
        argument ==
            IF d.argument_visitor = None
                THEN d.substituted.argument
                ELSE Deferrable_accept(d.substituted.argument, d.argument_visitor)
    IN  Application(abstraction, argument)

Deferrable_visit_application(visitor, application) ==
    Deferrable_application_result(defer_application(visitor, application))

Deferrable_accept(t, visitor) ==
    The({CASE isVariable(tt) -> Deferrable_visit_variable(v, tt)
           [] isAbstraction(tt) -> Deferrable_visit_abstraction(v, tt)
           [] isApplication(tt) -> Deferrable_visit_application(v, tt)
         : tt \in {t}, v \in {visitor}})

-----------------------------------------------------------------------------
(* CheckedSubstitution: visitors/substitution/checked.py.  The dict        *)
(* bound_variables is a function from the bound names to their counts; an  *)
(* accept returns the outcome together with the dict it leaves behind.     *)

EmptyDict == [n \in {} |-> 0]

\* CheckedSubstitution.from_substitution(variable, value)
Checked_from_substitution(var, val) ==
    [cls |-> "CheckedSubstitution", variable |-> var, value |-> val,
     free_variables |-> free_variables(val)]

bind_variable(bound, name) ==
    IF name \in DOMAIN bound
        THEN [bound EXCEPT ![name] = @ + 1]
        ELSE [n \in DOMAIN bound \cup {name} |-> IF n = name THEN 1 ELSE bound[n]]

\* mutant: the name is removed whatever its number is
unbind_variable_deletes(bound, name) ==
    [n \in DOMAIN bound \ {name} |-> bound[n]]

unbind_variable(bound, name) ==
    LET number == bound[name]
    IN  IF number = 1
            THEN [n \in DOMAIN bound \ {name} |-> bound[n]]
            ELSE [bound EXCEPT ![name] = number - 1]

\* mutant: the value is substituted without looking at the bound names
Checked_visit_variable_unchecked(visitor, t, bound) ==
    IF t.name # visitor.variable
        THEN [raised |-> FALSE, term |-> t, bound |-> bound]
        ELSE [raised |-> FALSE, term |-> visitor.value, bound |-> bound]

Checked_visit_variable(visitor, t, bound) ==
    IF t.name # visitor.variable
        THEN [raised |-> FALSE, term |-> t, bound |-> bound]
        ELSE LET collisions == visitor.free_variables \cap DOMAIN bound
             IN  IF collisions # {}
                     THEN [raised |-> TRUE, term |-> t, bound |-> bound]
                     ELSE [raised |-> FALSE, term |-> visitor.value, bound |-> bound]

RECURSIVE Checked_accept(_, _, _)

\* mutant: the name is unbound after a normal return only (no finally)
Checked_visit_abstraction_no_finally(visitor, abstraction, bound) ==
    IF abstraction.bound = visitor.variable
        THEN [raised |-> FALSE, term |-> abstraction, bound |-> bound]
        ELSE LET body == Checked_accept(
                             abstraction.body, visitor,
                             bind_variable(bound, abstraction.bound))
             IN  IF body.raised
                     THEN [raised |-> TRUE, term |-> abstraction, bound |-> body.bound]
                     ELSE [raised |-> FALSE,
                           term |-> Abstraction(abstraction.bound, body.term),
                           bound |-> unbind_variable(body.bound, abstraction.bound)]

\* mutant: the body is visited even when the abstraction binds variable
Checked_visit_abstraction_no_shadowing(visitor, abstraction, bound) ==
    LET body == Checked_accept(
                    abstraction.body, visitor,
                    bind_variable(bound, abstraction.bound))
        restored == unbind_variable(body.bound, abstraction.bound)
    IN  IF body.raised
            THEN [raised |-> TRUE, term |-> abstraction, bound |-> restored]
            ELSE [raised |-> FALSE,
                  term |-> Abstraction(abstraction.bound, body.term),
                  bound |-> restored]

Checked_visit_abstraction(visitor, abstraction, bound) ==
    IF abstraction.bound = visitor.variable
        THEN [raised |-> FALSE, term |-> abstraction, bound |-> bound]
        ELSE LET body == Checked_accept(
                             abstraction.body, visitor,
                             bind_variable(bound, abstraction.bound))
                 \* finally: runs on return and on error alike
                 restored == unbind_variable(body.bound, abstraction.bound)
             IN  IF body.raised
                     THEN [raised |-> TRUE, term |-> abstraction, bound |-> restored]
                     ELSE [raised |-> FALSE,
                           term |-> Abstraction(abstraction.bound, body.term),
                           bound |-> restored]

Checked_visit_application(visitor, application, bound) ==
    LET abstraction == Checked_accept(application.abstraction, visitor, bound)
    IN  IF abstraction.raised
            THEN [raised |-> TRUE, term |-> application, bound |-> abstraction.bound]
            ELSE LET argument ==
                         Checked_accept(application.argument, visitor, abstraction.bound)
                 IN  IF argument.raised
                         THEN [raised |-> TRUE, term |-> application,
                               bound |-> argument.bound]
                         ELSE [raised |-> FALSE,
                               term |-> Application(abstraction.term, argument.term),
                               bound |-> argument.bound]

Checked_accept(t, visitor, bound) ==
    The({CASE isVariable(tt) -> Checked_visit_variable(visitor, tt, b)
           [] isAbstraction(tt) -> Checked_visit_abstraction(visitor, tt, b)
           [] isApplication(tt) -> Checked_visit_application(visitor, tt, b)
         : tt \in {t}, b \in {bound}})

\* Term.substitute: a fresh CheckedSubstitution per call
substitute(t, var, val) == Checked_accept(t, Checked_from_substitution(var, val), EmptyDict)

-----------------------------------------------------------------------------
(* TracingDecorator: visitors/substitution/renaming.py.  A tracing         *)
(* generator always ends, so it is given by the sequence of the terms it   *)
(* yields and the term it returns.                                         *)

RECURSIVE Tracing_accept(_, _)

Tracing_visit_variable(substitution, t) ==
    [yields |-> <<>>, ret |-> Deferrable_visit_variable(substitution, t)]

\* the body of visit_abstraction after defer_abstraction gave a visitor
\* mutant: the generator returns the abstraction under its old binder
Tracing_abstraction_result_old_binder(abstraction, substituted, conversions) ==
    [yields |-> (IF substituted.bound # abstraction.bound
                     THEN <<substituted>>
                     ELSE <<>>)
                    \o [i \in 1..Len(conversions.yields) |->
                           Abstraction(substituted.bound, conversions.yields[i])],
     ret |-> Abstraction(abstraction.bound, conversions.ret)]

Tracing_abstraction_result(abstraction, substituted, conversions) ==
    [yields |->
         (IF substituted.bound # abstraction.bound THEN <<substituted>> ELSE <<>>)
             \o [i \in 1..Len(conversions.yields) |->
                    Abstraction(substituted.bound, conversions.yields[i])],
     ret |-> Abstraction(substituted.bound, conversions.ret)]

Tracing_deferred_abstraction(substitution, abstraction, d) ==
    IF d.body_visitor = None
        THEN [yields |-> <<>>, ret |-> d.substituted]
        ELSE The({Tracing_abstraction_result(abstraction, d.substituted, conversions)
                  : conversions \in {Tracing_accept(d.substituted.body, substitution)}})

Tracing_visit_abstraction(substitution, abstraction) ==
    The({Tracing_deferred_abstraction(substitution, abstraction, d)
         : d \in {Renaming_defer_abstraction(substitution, abstraction)}})

\* mutant: the steps of the argument are yielded next to the substituted
\* abstraction instead of its last alpha conversion
Tracing_application_result_substituted(application, inAbstraction, inArgument) ==
    [yields |->
         [i \in 1..Len(inAbstraction.yields) |->
             Application(inAbstraction.yields[i], application.argument)]
         \o [i \in 1..Len(inArgument.yields) |->
                Application(inAbstraction.ret, inArgument.yields[i])],
     ret |-> Application(inAbstraction.ret, inArgument.ret)]

Tracing_application_result(application, inAbstraction, inArgument) ==
    LET \* the last alpha conversion of the abstraction, or the abstraction as it was
        step == IF inAbstraction.yields = <<>>
                    THEN application.abstraction
                    ELSE inAbstraction.yields[Len(inAbstraction.yields)]
        abstraction == inAbstraction.ret
    IN  [yields |->
             [i \in 1..Len(inAbstraction.yields) |->
                 Application(inAbstraction.yields[i], application.argument)]
             \o [i \in 1..Len(inArgument.yields) |->
                    Application(step, inArgument.yields[i])],
         ret |-> Application(abstraction, inArgument.ret)]

Tracing_visit_application(substitution, application) ==
    The({Tracing_application_result(application, inAbstraction, inArgument)
         : inAbstraction \in {Tracing_accept(application.abstraction, substitution)},
           inArgument \in {Tracing_accept(application.argument, substitution)}})

Tracing_accept(t, substitution) ==
    The({CASE isVariable(tt) -> Tracing_visit_variable(substitution, tt)
           [] isAbstraction(tt) -> Tracing_visit_abstraction(substitution, tt)
           [] isApplication(tt) -> Tracing_visit_application(substitution, tt)
         : tt \in {t}})

-----------------------------------------------------------------------------
(* BetaNormalisingVisitor: visitors/normalisation.py.  The iterator that   *)
(* term.accept(visitor) returns is a stack of suspended generators,        *)
(* outermost first.  A frame is kept for every generator that still has    *)
(* something to do when its delegate ends or yields; a generator whose     *)
(* remaining code is "yield from <delegate>" followed by its return        *)
(* (lines 109 and 117-118) hands over to the delegate.                     *)

NoTerm == [tag |-> "none"]

Step(conv, t) == [conversion |-> conv, term |-> t]

\* t.accept(self), not yet started
AcceptFrame(t) == [k |-> "accept", term |-> t]

\* the map object of visit_abstraction (line 75)
AbstractionFrame(bound) == [k |-> "visit_abstraction", bound |-> bound]

\* a running beta_reducation: the steps it has still to yield, and its return value
ReductionFrame(steps, reduced) ==
    [k |-> "beta_reducation", steps |-> steps, reduced |-> reduced]

\* the for loop of visit_application (lines 112-120) over the steps of the
\* abstraction; transformation is the one of the step it is suspended at
HeadFrame(argument, abstraction, transformation) ==
    [k |-> "head", argument |-> argument, abstraction |-> abstraction,
     transformation |-> transformation]

\* the map object over the steps of the argument (lines 122-123)
ArgumentFrame(abstraction) == [k |-> "argument", abstraction |-> abstraction]

\* mutant: the body is taken as the result, argument is not substituted
beta_reducation_without_substitution(abstraction, argument) ==
    ReductionFrame(<<Step("BETA", abstraction.body)>>, abstraction.body)

\* mutant: the alpha conversions are yielded as they come from the tracing
\* generator, not as the application they are part of
beta_reducation_unwrapped(abstraction, argument) ==
    The({ReductionFrame(
             [i \in 1..Len(conversions.yields) |->
                 Step("ALPHA", conversions.yields[i])]
                 \o <<Step("BETA", conversions.ret)>>,
             conversions.ret)
         : conversions \in {Tracing_accept(
                               abstraction.body,
                               Counting_from_substitution(abstraction.bound, argument))}})

\* mutant: the redex is contracted with the checked substitution, whose
\* CollisionError leaves the generator in place of a step
beta_reducation_checked(abstraction, argument) ==
    The({IF r.raised
             THEN ReductionFrame(
                      <<Step("CollisionError", Application(abstraction, argument))>>,
                      abstraction.body)
             ELSE ReductionFrame(<<Step("BETA", r.term)>>, r.term)
         : r \in {substitute(abstraction.body, abstraction.bound, argument)}})

beta_reducation(abstraction, argument) ==
    The({ReductionFrame(
             [i \in 1..Len(conversions.yields) |->
                 Step("ALPHA",
                      Application(
                          Abstraction(abstraction.bound, conversions.yields[i]),
                          argument))]
                 \o <<Step("BETA", conversions.ret)>>,
             conversions.ret)
         : conversions \in {Tracing_accept(
                               abstraction.body,
                               Counting_from_substitution(abstraction.bound, argument))}})

\* mutant: an application whose abstraction is no Abstraction is yielded as
\* a step of its own before its abstraction is visited
visit_yields_unreduced(t) ==
    CASE isVariable(t) -> <<>>
      [] isAbstraction(t) -> <<AbstractionFrame(t.bound), AcceptFrame(t.body)>>
      [] isApplication(t) ->
            IF isAbstraction(t.abstraction)
                THEN <<beta_reducation(t.abstraction, t.argument)>>
                ELSE <<ReductionFrame(<<Step("BETA", t)>>, t.abstraction)>>

\* the frames that t.accept(self) starts with
visit(t) ==
    CASE isVariable(t) -> <<>>
      [] isAbstraction(t) -> <<AbstractionFrame(t.bound), AcceptFrame(t.body)>>
      [] isApplication(t) ->
            IF isAbstraction(t.abstraction)
                THEN <<beta_reducation(t.abstraction, t.argument)>>
                ELSE <<HeadFrame(t.argument, t.abstraction, NoTerm),
                       AcceptFrame(t.abstraction)>>

\* what a frame does to a step of its delegate before yielding it itself
wrap(frame, step) ==
    CASE frame.k = "visit_abstraction" ->
            [frame |-> frame,
             step |-> Step(step.conversion, Abstraction(frame.bound, step.term))]
      [] frame.k = "argument" ->
            [frame |-> frame,
             step |-> Step(step.conversion,
                           Application(frame.abstraction, step.term))]
      [] frame.k = "head" ->
            [frame |-> [frame EXCEPT !.transformation = step.term],
             step |-> Step(step.conversion,
                           Application(step.term, frame.argument))]

\* a step yielded by frame i + 1 travels out through the frames i, ..., 1
RECURSIVE yield_through(_, _, _)
yield_through(frames, i, step) ==
    IF i = 0
        THEN [stack |-> frames, out |-> step]
        ELSE The({yield_through([frames EXCEPT ![i] = w.frame], i - 1, w.step)
                  : w \in {wrap(frames[i], step)}})

Pop(frames) == SubSeq(frames, 1, Len(frames) - 1)

\* mutant: the head loop goes on when the transformation is an Abstraction
resume_head_never_reduces(frame) ==
    IF frame.transformation = NoTerm
        THEN <<frame>>
        ELSE <<HeadFrame(frame.argument, frame.transformation, NoTerm)>>

\* what a suspended head loop does when it is resumed (lines 115-120): on an
\* Abstraction it drops its delegate and reduces, else it keeps the
\* transformation as the abstraction and asks its delegate for the next step
resume_head(frame) ==
    IF frame.transformation = NoTerm
        THEN <<frame>>
        ELSE IF isAbstraction(frame.transformation)
            THEN <<beta_reducation(frame.transformation, frame.argument)>>
            ELSE <<HeadFrame(frame.argument, frame.transformation, NoTerm)>>

\* next() enters the outermost generator and is handed inwards from
\* delegate to delegate, until a head loop reduces
RECURSIVE resume(_, _)
resume(frames, i) ==
    The({IF i > Len(fs)
             THEN fs
             ELSE IF fs[i].k = "head"
                 THEN The({IF h[1].k = "beta_reducation"
                               THEN SubSeq(fs, 1, i - 1) \o h
                               ELSE resume([fs EXCEPT ![i] = h[1]], i + 1)
                           : h \in {resume_head(fs[i])}})
                 ELSE resume(fs, i + 1)
         : fs \in {frames}})

\* the innermost generator runs until a step is yielded or every generator
\* has ended
RECURSIVE run(_)
run(frames) ==
    The({IF fs = <<>>
             THEN [stack |-> <<>>, out |-> NoTerm]
             ELSE The({CASE top.k = "accept" -> run(Pop(fs) \o visit(top.term))
                         [] top.k = "beta_reducation" ->
                               IF top.steps # <<>>
                                   THEN yield_through(
                                            Pop(fs)
                                                \o <<ReductionFrame(Tail(top.steps),
                                                                    top.reduced)>>,
                                            Len(fs) - 1,
                                            Head(top.steps))
                                   ELSE run(Pop(fs) \o <<AcceptFrame(top.reduced)>>)
                         [] top.k = "head" ->
                               \* the abstraction is done and is no redex: the argument
                               run(Pop(fs)
                                       \o <<ArgumentFrame(top.abstraction),
                                            AcceptFrame(top.argument)>>)
                         [] top.k = "visit_abstraction" -> run(Pop(fs))
                         [] top.k = "argument" -> run(Pop(fs))
                       : top \in {fs[Len(fs)]}})
         : fs \in {frames}})

\* next(iterator): [stack, out], out the step yielded or NoTerm on StopIteration
next(frames) == run(resume(frames, 1))

-----------------------------------------------------------------------------
(* Inputs.  Terms are enumerated by their number of nodes over Names; the  *)
(* names include "x1", the first candidate of the fresh-name search for    *)
(* "x".                                                                    *)

Names == {"x", "x1", "y"}

AbstractionsOver(S) == {Abstraction(n, t) : n \in Names, t \in S}

ApplicationsOver(S, T) == {Application(f, a) : f \in S, a \in T}

Terms1 == {Variable(n) : n \in Names}

Terms2 == AbstractionsOver(Terms1)

Terms3 == AbstractionsOver(Terms2) \cup ApplicationsOver(Terms1, Terms1)

Terms4 ==
    AbstractionsOver(Terms3)
        \cup ApplicationsOver(Terms1, Terms2) \cup ApplicationsOver(Terms2, Terms1)

SubstTerms == Terms1 \cup Terms2 \cup Terms3 \cup Terms4

SubstValues == Terms1 \cup Terms2 \cup Terms3

NoResult == [raised |-> FALSE, term |-> Variable("x")]

-----------------------------------------------------------------------------
(* Specification of normalisation: a term is drawn and the iterator of     *)
(* term.accept(BetaNormalisingVisitor()) is pulled step by step.           *)

Terms5 ==
    AbstractionsOver(Terms4)
        \cup ApplicationsOver(Terms1, Terms3) \cup ApplicationsOver(Terms3, Terms1)
        \cup ApplicationsOver(Terms2, Terms2)

Terms6 ==
    AbstractionsOver(Terms5)
        \cup ApplicationsOver(Terms1, Terms4) \cup ApplicationsOver(Terms4, Terms1)
        \cup ApplicationsOver(Terms2, Terms3) \cup ApplicationsOver(Terms3, Terms2)

Terms7 ==
    AbstractionsOver(Terms6)
        \cup ApplicationsOver(Terms1, Terms5) \cup ApplicationsOver(Terms5, Terms1)
        \cup ApplicationsOver(Terms2, Terms4) \cup ApplicationsOver(Terms4, Terms2)
        \cup ApplicationsOver(Terms3, Terms3)

\* terms/combinators.py
DELTA == Abstraction("x", Application(Variable("x"), Variable("x")))

OMEGA == Application(DELTA, DELTA)

I == Abstraction("x", Variable("x"))

K == Abstraction("x", Abstraction("y", Variable("x")))

Y == Abstraction("g",
         Application(
             Abstraction("x", Application(Variable("g"),
                                          Application(Variable("x"), Variable("x")))),
             Abstraction("x", Application(Variable("g"),
                                          Application(Variable("x"), Variable("x"))))))

\* tests/visitors/test_normalisation.py, test_order
Triple == Abstraction("w", Application(Application(Variable("w"), Variable("w")),
                                       Variable("w")))

OrderTerm ==
    Application(
        Application(Abstraction("a", Variable("a")), Abstraction("x", Variable("z"))),
        Application(Triple, Triple))

\* tests/visitors/test_normalisation.py, test_collision
CollisionTerm ==
    Application(
        DELTA,
        Abstraction("a", Abstraction("b", Application(Variable("a"), Variable("b")))))

\* tests/terms/test_combinators.py, test_y
YKTerm == Application(Y, Application(K, Variable("a")))

\* ((\x1.\x.((x I) OMEGA)) x) K, which reduces to I
SelectorTerm ==
    Application(
        Application(
            Abstraction("x1",
                Abstraction("x",
                    Application(Application(Variable("x"), Abstraction("a", Variable("a"))),
                                Application(
                                    Abstraction("w", Application(Variable("w"), Variable("w"))),
                                    Abstraction("w", Application(Variable("w"), Variable("w"))))))),
            Variable("x")),
        Abstraction("a", Abstraction("b", Variable("a"))))

NormTerms ==
    Terms1 \cup Terms2 \cup Terms3 \cup Terms4 \cup Terms5 \cup Terms6 \cup Terms7
        \cup {OMEGA, OrderTerm, CollisionTerm, YKTerm, SelectorTerm}

RECURSIVE Size(_)
Size(t) ==
    CASE isVariable(t) -> 1
      [] isAbstraction(t) -> 1 + Size(t.body)
      [] isApplication(t) -> 1 + Size(t.abstraction) + Size(t.argument)

\* steps are pulled as long as the last term has at most MaxSize nodes
MaxSize == 40

SubstIdle ==
    /\ term = Variable("x")
    /\ variable = "x"
    /\ value = Variable("x")
    /\ operation = "none"
    /\ result = [raised |-> FALSE, term |-> Variable("x")]
    /\ bound_variables = [n \in {} |-> 0]
    /\ history = <<>>

Init ==
    /\ input \in NormTerms
    /\ stack = <<AcceptFrame(input)>>
    /\ status = "running"
    /\ yielded = FALSE
    /\ conversion = "NONE"
    /\ lastTerm = input
    /\ prevTerm = input
    /\ oddSteps = FALSE
    /\ SubstIdle

\* the for loop of skip_intermediate without the assignment to result
PullStep_keeps_result ==
    /\ status = "running"
    /\ Size(lastTerm) <= MaxSize
    /\ LET n == next(stack)
       IN  /\ n.out # NoTerm
           /\ stack' = n.stack
           /\ conversion' = n.out.conversion
    /\ prevTerm' = lastTerm
    /\ yielded' = TRUE
    /\ oddSteps' = ~oddSteps
    /\ UNCHANGED <<input, status, lastTerm>>
    /\ UNCHANGED substVars

\* next(iterator) yields a step
PullStep ==
    /\ status = "running"
    /\ Size(lastTerm) <= MaxSize
    /\ LET n == next(stack)
       IN  /\ n.out # NoTerm
           /\ stack' = n.stack
           /\ conversion' = n.out.conversion
           /\ lastTerm' = n.out.term
    /\ prevTerm' = lastTerm
    /\ yielded' = TRUE
    /\ oddSteps' = ~oddSteps
    /\ UNCHANGED <<input, status>>
    /\ UNCHANGED substVars

\* next(iterator) raises StopIteration
PullStop ==
    /\ status = "running"
    /\ Size(lastTerm) <= MaxSize
    /\ LET n == next(stack)
       IN  /\ n.out = NoTerm
           /\ stack' = n.stack
    /\ status' = "exhausted"
    /\ UNCHANGED <<input, yielded, conversion, lastTerm, prevTerm, oddSteps>>
    /\ UNCHANGED substVars

Next == PullStep \/ PullStop

Spec == Init /\ [][Next]_vars

\* the consumer keeps pulling (skip_intermediate's for loop)
SpecFair == Spec /\ WF_vars(Next)

-----------------------------------------------------------------------------
(* Specification of the substitution visitors: a term, a variable and a    *)
(* value are drawn, then a visitor built by from_substitution visits the   *)
(* term.                                                                   *)

NormIdle ==
    /\ input = Variable("x")
    /\ stack = <<>>
    /\ status = "exhausted"
    /\ yielded = FALSE
    /\ conversion = "NONE"
    /\ lastTerm = Variable("x")
    /\ prevTerm = Variable("x")
    /\ oddSteps = FALSE

InitSubst ==
    /\ NormIdle
    /\ term \in SubstTerms
    /\ variable \in Names
    /\ value \in SubstValues
    /\ operation = "none"
    /\ result = NoResult
    /\ bound_variables = EmptyDict
    /\ history = <<>>

\* term.accept(CountingSubstitution.from_substitution(variable, value))
CountingAccept ==
    /\ operation' = "counting"
    /\ result' = [raised |-> FALSE,
                  term |-> Deferrable_accept(
                               term, Counting_from_substitution(variable, value))]
    /\ UNCHANGED <<term, variable, value, bound_variables, history>>
    /\ UNCHANGED normVars

\* term.accept(UnsafeSubstitution.from_substitution(variable, value))
UnsafeAccept ==
    /\ operation' = "unsafe"
    /\ result' = [raised |-> FALSE,
                  term |-> Deferrable_accept(
                               term, Unsafe_from_substitution(variable, value))]
    /\ UNCHANGED <<term, variable, value, bound_variables, history>>
    /\ UNCHANGED normVars

\* term.substitute(variable, value)
Substitute ==
    /\ operation' = "checked"
    /\ LET r == substitute(term, variable, value)
       IN  /\ result' = [raised |-> r.raised, term |-> r.term]
           /\ bound_variables' = r.bound
    /\ UNCHANGED <<term, variable, value, history>>
    /\ UNCHANGED normVars

NextSubst == CountingAccept \/ UnsafeAccept \/ Substitute

SpecSubst == InitSubst /\ [][NextSubst]_vars

-----------------------------------------------------------------------------
(* Specification of one CheckedSubstitution instance that is used for      *)
(* several accept calls in a row: the dict left by one call is the dict    *)
(* the next call starts with.                                              *)

MaxCalls == 2

ReuseValues == Terms1 \cup {Application(Variable("x"), Variable("y"))}

InitReuse ==
    /\ NormIdle
    /\ term = Variable("x")
    /\ variable \in Names
    /\ value \in ReuseValues
    /\ operation = "none"
    /\ result = NoResult
    /\ bound_variables = EmptyDict
    /\ history = <<>>

\* t.accept(visitor) on the visitor built at first
ReuseAccept ==
    /\ Len(history) < MaxCalls
    /\ \E t \in SubstTerms :
         LET r == Checked_accept(
                      t, Checked_from_substitution(variable, value), bound_variables)
         IN  /\ term' = t
             /\ result' = [raised |-> r.raised, term |-> r.term]
             /\ bound_variables' = r.bound
             /\ history' = Append(history, r.raised)
    /\ operation' = "checked"
    /\ UNCHANGED <<variable, value>>
    /\ UNCHANGED normVars

NextReuse == ReuseAccept

SpecReuse == InitReuse /\ [][NextReuse]_vars

\* the terms of up to 5 nodes
TraceTerms == SubstTerms \cup Terms5

-----------------------------------------------------------------------------
(* DepthFirstVisitor: visitors/walking.py on BottomUpVisitor,              *)
(* visitors/__init__.py.  An iterator of subterms is given by the sequence *)
(* of the terms it yields.                                                 *)

DepthFirst_visit_variable(variable_term) == <<variable_term>>

ascend_abstraction(abstraction, body) == body \o <<abstraction>>

\* mutant: the argument is walked before the abstraction
ascend_application_argument_first(application, abstraction, argument) ==
    argument \o abstraction \o <<application>>

ascend_application(application, abstraction, argument) ==
    abstraction \o argument \o <<application>>

RECURSIVE DepthFirst_accept(_)

BottomUp_visit_abstraction(abstraction) ==
    ascend_abstraction(abstraction, DepthFirst_accept(abstraction.body))

BottomUp_visit_application(application) ==
    ascend_application(
        application,
        DepthFirst_accept(application.abstraction),
        DepthFirst_accept(application.argument))

DepthFirst_accept(t) ==
    The({CASE isVariable(tt) -> DepthFirst_visit_variable(tt)
           [] isAbstraction(tt) -> BottomUp_visit_abstraction(tt)
           [] isApplication(tt) -> BottomUp_visit_application(tt)
         : tt \in {t}})

\* Term.__iter__
iter(t) == DepthFirst_accept(t)

-----------------------------------------------------------------------------
(* The conversions of terms/__init__.py.  A call gives the value returned  *)
(* or the exception raised.                                                *)

Returned(v) == [raised |-> FALSE, error |-> "none", value |-> v]

Raised(e) == [raised |-> TRUE, error |-> e, value |-> NoTerm]

\* mutant: the body is renamed by the unsafe substitution
alpha_conversion_unchecked(abstraction, new) ==
    IF new = abstraction.bound
        THEN Returned(abstraction)
        ELSE IF new \notin free_variables(abstraction.body)
            THEN Returned(
                     Abstraction(
                         new,
                         Deferrable_accept(
                             abstraction.body,
                             Unsafe_from_substitution(abstraction.bound, Variable(new)))))
            ELSE Raised("CollisionError")

\* mutant: the new name is not compared with the bound one
alpha_conversion_no_shortcut(abstraction, new) ==
    IF new \notin free_variables(abstraction.body)
        THEN The({IF r.raised
                      THEN Raised("CollisionError")
                      ELSE Returned(Abstraction(new, r.term))
                  : r \in {substitute(abstraction.body, abstraction.bound,
                                      Variable(new))}})
        ELSE Raised("CollisionError")

alpha_conversion(abstraction, new) ==
    IF new = abstraction.bound
        THEN Returned(abstraction)
        ELSE IF new \notin free_variables(abstraction.body)
            THEN The({IF r.raised
                          THEN Raised("CollisionError")
                          ELSE Returned(Abstraction(new, r.term))
                      : r \in {substitute(abstraction.body, abstraction.bound,
                                          Variable(new))}})
            ELSE Raised("CollisionError")

\* mutant: the free variables of f are not looked at
eta_reduction_unguarded(abstraction) ==
    IF /\ isApplication(abstraction.body)
       /\ isVariable(abstraction.body.argument)
       /\ abstraction.body.argument.name = abstraction.bound
        THEN Returned(abstraction.body.abstraction)
        ELSE Raised("ValueError")

eta_reduction(abstraction) ==
    IF /\ isApplication(abstraction.body)
       /\ isVariable(abstraction.body.argument)
       /\ abstraction.body.argument.name = abstraction.bound
       /\ abstraction.bound \notin free_variables(abstraction.body.abstraction)
        THEN Returned(abstraction.body.abstraction)
        ELSE Raised("ValueError")

\* mutant: the body is returned as it is, the argument is dropped
beta_reduction_keeps_body(application) ==
    IF isAbstraction(application.abstraction)
        THEN Returned(application.abstraction.body)
        ELSE Raised("ValueError")

beta_reduction_returns_unchanged(application) ==
    IF isAbstraction(application.abstraction)
        THEN beta_reduction_keeps_body(application)
        ELSE Returned(application)

beta_reduction(application) ==
    IF isAbstraction(application.abstraction)
        THEN The({IF r.raised
                      THEN Raised("CollisionError")
                      ELSE Returned(r.term)
                  : r \in {substitute(application.abstraction.body,
                                      application.abstraction.bound,
                                      application.argument)}})
        ELSE Raised("ValueError")

-----------------------------------------------------------------------------
(* Specification of the methods of a term: a term and a name are drawn and *)
(* the methods are called on the term; operation is the method called      *)
(* last, result its outcome as Returned or Raised gives it, history the    *)
(* subterms that iterating the term yielded.                               *)

\* (I I) y: an application whose abstraction position holds a redex that
\* reduces to an abstraction
HeadRedexTerm == Application(Application(I, I), Variable("y"))

MethodTerms == TraceTerms \cup {HeadRedexTerm}

InitTerms ==
    /\ NormIdle
    /\ term \in MethodTerms
    /\ variable \in Names
    /\ value = Variable("x")
    /\ operation = "none"
    /\ result = NoResult
    /\ bound_variables = EmptyDict
    /\ history = <<>>

\* list(term)
Iterate ==
    /\ operation' = "iter"
    /\ history' = iter(term)
    /\ result' = Returned(term)
    /\ UNCHANGED <<term, variable, value, bound_variables>>
    /\ UNCHANGED normVars

\* term.is_beta_normal_form()
IsBetaNormalForm ==
    /\ operation' = "is_beta_normal_form"
    /\ result' = Returned(is_beta_normal_form(term))
    /\ UNCHANGED <<term, variable, value, bound_variables, history>>
    /\ UNCHANGED normVars

\* term.alpha_conversion(variable)
AlphaConversion ==
    /\ isAbstraction(term)
    /\ operation' = "alpha_conversion"
    /\ result' = alpha_conversion(term, variable)
    /\ UNCHANGED <<term, variable, value, bound_variables, history>>
    /\ UNCHANGED normVars

\* term.alpha_conversion(variable).alpha_conversion(term.bound): the second call
AlphaConversionBack ==
    /\ isAbstraction(term)
    /\ operation = "alpha_conversion"
    /\ ~result.raised
    /\ operation' = "alpha_conversion_back"
    /\ result' = alpha_conversion(result.value, term.bound)
    /\ UNCHANGED <<term, variable, value, bound_variables, history>>
    /\ UNCHANGED normVars

\* term.eta_reduction()
EtaReduction ==
    /\ isAbstraction(term)
    /\ operation' = "eta_reduction"
    /\ result' = eta_reduction(term)
    /\ UNCHANGED <<term, variable, value, bound_variables, history>>
    /\ UNCHANGED normVars

\* term.beta_reduction()
BetaReduction ==
    /\ isApplication(term)
    /\ operation' = "beta_reduction"
    /\ result' = beta_reduction(term)
    /\ UNCHANGED <<term, variable, value, bound_variables, history>>
    /\ UNCHANGED normVars

NextTerms ==
    \/ Iterate
    \/ IsBetaNormalForm
    \/ AlphaConversion
    \/ AlphaConversionBack
    \/ EtaReduction
    \/ BetaReduction

SpecTerms == InitTerms /\ [][NextTerms]_vars

-----------------------------------------------------------------------------
(* Specification of the tracing decorator: a term, a variable and a value  *)
(* are drawn, then the generator term.accept(substitution.trace()) of a    *)
(* CountingSubstitution is run to its end; history holds the terms it      *)
(* yields, result its return value.                                        *)

TraceValues == Terms1 \cup ApplicationsOver(Terms1, Terms1)

InitTrace ==
    /\ NormIdle
    /\ term \in TraceTerms
    /\ variable \in Names
    /\ value \in TraceValues
    /\ operation = "none"
    /\ result = NoResult
    /\ bound_variables = EmptyDict
    /\ history = <<>>

\* list(term.accept(CountingSubstitution.from_substitution(variable, value).trace()))
\* and the value of its StopIteration
TraceAccept ==
    /\ operation' = "tracing"
    /\ LET g == Tracing_accept(term, Counting_from_substitution(variable, value))
       IN  /\ history' = g.yields
           /\ result' = [raised |-> FALSE, term |-> g.ret]
    /\ UNCHANGED <<term, variable, value, bound_variables>>
    /\ UNCHANGED normVars

\* term.accept(CountingSubstitution.from_substitution(variable, value)), untraced
PlainAccept ==
    /\ operation' = "counting"
    /\ history' = <<>>
    /\ result' = [raised |-> FALSE,
                  term |-> Deferrable_accept(
                               term, Counting_from_substitution(variable, value))]
    /\ UNCHANGED <<term, variable, value, bound_variables>>
    /\ UNCHANGED normVars

NextTrace == TraceAccept \/ PlainAccept

SpecTrace == InitTrace /\ [][NextTrace]_vars

-----------------------------------------------------------------------------
(* Specification of the first contraction: the input has its leftmost-     *)
(* outermost redex at the root, below abstractions or in the argument of   *)
(* applications of a variable; the steps pulled from the iterator are      *)
(* recorded in history, MaxPulls of them at most.                          *)

MaxPulls == 5

RECURSIVE RedexInContext(_)
RedexInContext(t) ==
    CASE isVariable(t) -> FALSE
      [] isAbstraction(t) -> RedexInContext(t.body)
      [] isApplication(t) ->
            \/ isAbstraction(t.abstraction)
            \/ isVariable(t.abstraction) /\ RedexInContext(t.argument)

\* (\y.\x.\x1.((\a.a) y)) (x x1): two binders are renamed, the result has a redex
TwoRenamingsTerm ==
    Application(
        Abstraction("y",
            Abstraction("x",
                Abstraction("x1",
                    Application(Abstraction("a", Variable("a")), Variable("y"))))),
        Application(Variable("x"), Variable("x1")))

RedexInputs == {t \in NormTerms : RedexInContext(t)} \cup {TwoRenamingsTerm}

InitRedex ==
    /\ input \in RedexInputs
    /\ stack = <<AcceptFrame(input)>>
    /\ status = "running"
    /\ yielded = FALSE
    /\ conversion = "NONE"
    /\ lastTerm = input
    /\ prevTerm = input
    /\ oddSteps = FALSE
    /\ SubstIdle

\* next(iterator) yields a step, which is appended to the list of the steps
RecordStep ==
    /\ status = "running"
    /\ Len(history) < MaxPulls
    /\ LET n == next(stack)
       IN  /\ n.out # NoTerm
           /\ stack' = n.stack
           /\ conversion' = n.out.conversion
           /\ lastTerm' = n.out.term
           /\ history' = Append(history, n.out)
    /\ prevTerm' = lastTerm
    /\ yielded' = TRUE
    /\ oddSteps' = ~oddSteps
    /\ UNCHANGED <<input, status>>
    /\ UNCHANGED <<term, variable, value, operation, result, bound_variables>>

\* next(iterator) raises StopIteration: the list of the steps is complete
RecordStop ==
    /\ status = "running"
    /\ Len(history) < MaxPulls
    /\ LET n == next(stack)
       IN  /\ n.out = NoTerm
           /\ stack' = n.stack
    /\ status' = "exhausted"
    /\ UNCHANGED <<input, yielded, conversion, lastTerm, prevTerm, oddSteps>>
    /\ UNCHANGED substVars

NextRedex == RecordStep \/ RecordStop

SpecRedex == InitRedex /\ [][NextRedex]_vars

-----------------------------------------------------------------------------
(* Specification of one traversal of a CheckedSubstitution, call by call:  *)
(* stack holds the calls that are still to be made, the call that runs     *)
(* next first, together with the finally blocks of the abstractions that   *)
(* were entered; bound_variables is the visitor's dictionary; the status   *)
(* "raising" means that a CollisionError is propagating.                   *)

\* term.accept(visitor) for the subterm at path
VisitFrame(t, path) == [kind |-> "accept", term |-> t, path |-> path]

\* the finally block of visit_abstraction
FinallyFrame(name) == [kind |-> "finally", name |-> name]

InitChecked ==
    /\ input = Variable("x")
    /\ yielded = FALSE
    /\ conversion = "NONE"
    /\ lastTerm = Variable("x")
    /\ prevTerm = Variable("x")
    /\ oddSteps = FALSE
    /\ term \in TraceTerms
    /\ variable \in Names
    /\ value \in TraceValues
    /\ stack = <<VisitFrame(term, <<>>)>>
    /\ status = "running"
    /\ operation = "none"
    /\ result = NoResult
    /\ bound_variables = EmptyDict
    /\ history = <<>>

CheckedVisitVariable ==
    /\ status = "running"
    /\ stack # <<>>
    /\ Head(stack).kind = "accept"
    /\ isVariable(Head(stack).term)
    /\ LET r == Checked_visit_variable(
                    Checked_from_substitution(variable, value),
                    Head(stack).term, bound_variables)
       IN  /\ status' = IF r.raised THEN "raising" ELSE "running"
           /\ bound_variables' = r.bound
    /\ stack' = Tail(stack)
    /\ operation' = "visit_variable"
    /\ UNCHANGED <<term, variable, value, result, history>>
    /\ UNCHANGED <<input, yielded, conversion, lastTerm, prevTerm, oddSteps>>

\* visit_abstraction up to the call that visits the body
CheckedVisitAbstraction ==
    /\ status = "running"
    /\ stack # <<>>
    /\ Head(stack).kind = "accept"
    /\ isAbstraction(Head(stack).term)
    /\ LET abstraction == Head(stack).term
       IN  IF abstraction.bound = variable
               THEN /\ stack' = Tail(stack)
                    /\ UNCHANGED bound_variables
               ELSE /\ bound_variables' =
                           bind_variable(bound_variables, abstraction.bound)
                    /\ stack' = <<VisitFrame(abstraction.body,
                                             Head(stack).path \o <<"body">>),
                                  FinallyFrame(abstraction.bound)>>
                                \o Tail(stack)
    /\ operation' = "visit_abstraction"
    /\ UNCHANGED <<term, variable, value, result, history, status>>
    /\ UNCHANGED <<input, yielded, conversion, lastTerm, prevTerm, oddSteps>>

\* visit_application: the abstraction is visited first, then the argument
CheckedVisitApplication ==
    /\ status = "running"
    /\ stack # <<>>
    /\ Head(stack).kind = "accept"
    /\ isApplication(Head(stack).term)
    /\ LET application == Head(stack).term
       IN  stack' = <<VisitFrame(application.abstraction,
                                 Head(stack).path \o <<"abstraction">>),
                      VisitFrame(application.argument,
                                 Head(stack).path \o <<"argument">>)>>
                    \o Tail(stack)
    /\ operation' = "visit_application"
    /\ UNCHANGED <<term, variable, value, result, history, status, bound_variables>>
    /\ UNCHANGED <<input, yielded, conversion, lastTerm, prevTerm, oddSteps>>

\* finally: self.unbind_variable(abstraction.bound), on return and on error
CheckedFinally ==
    /\ stack # <<>>
    /\ Head(stack).kind = "finally"
    /\ bound_variables' = unbind_variable(bound_variables, Head(stack).name)
    /\ stack' = Tail(stack)
    /\ operation' = "finally"
    /\ UNCHANGED <<term, variable, value, result, history, status>>
    /\ UNCHANGED <<input, yielded, conversion, lastTerm, prevTerm, oddSteps>>

\* the error leaves visit_application before its argument is visited
CheckedPropagate ==
    /\ status = "raising"
    /\ stack # <<>>
    /\ Head(stack).kind = "accept"
    /\ stack' = Tail(stack)
    /\ operation' = "propagate"
    /\ UNCHANGED <<term, variable, value, result, history, status, bound_variables>>
    /\ UNCHANGED <<input, yielded, conversion, lastTerm, prevTerm, oddSteps>>

NextChecked ==
    \/ CheckedVisitVariable
    \/ CheckedVisitAbstraction
    \/ CheckedVisitApplication
    \/ CheckedFinally
    \/ CheckedPropagate

SpecChecked == InitChecked /\ [][NextChecked]_vars

-----------------------------------------------------------------------------
(* Specification of the final methods of DeferrableSubstitution given what  *)
(* the abstract methods defer_abstraction and defer_application return: a  *)
(* term that is no variable is drawn as the substituted term, and each     *)
(* continuation is None or a visitor; history holds the continuations.     *)

Continuations == {None, Unsafe_from_substitution(variable, value)}

InitDefer ==
    /\ NormIdle
    /\ term \in {t \in SubstTerms : ~isVariable(t)}
    /\ variable \in Names
    /\ value \in SubstValues
    /\ operation = "none"
    /\ result = NoResult
    /\ bound_variables = EmptyDict
    /\ history = <<>>

\* visit_abstraction when defer_abstraction returns (term, body_visitor)
DeferredAbstraction ==
    /\ isAbstraction(term)
    /\ \E body_visitor \in Continuations :
           /\ history' = <<body_visitor>>
           /\ result' = [raised |-> FALSE,
                         term |-> Deferrable_abstraction_result(
                                      [substituted |-> term,
                                       body_visitor |-> body_visitor])]
    /\ operation' = "visit_abstraction"
    /\ UNCHANGED <<term, variable, value, bound_variables>>
    /\ UNCHANGED normVars

\* visit_application when defer_application returns
\* (term, abstraction_visitor, argument_visitor)
DeferredApplication ==
    /\ isApplication(term)
    /\ \E abstraction_visitor \in Continuations, argument_visitor \in Continuations :
           /\ history' = <<abstraction_visitor, argument_visitor>>
           /\ result' = [raised |-> FALSE,
                         term |-> Deferrable_application_result(
                                      [substituted |-> term,
                                       abstraction_visitor |-> abstraction_visitor,
                                       argument_visitor |-> argument_visitor])]
    /\ operation' = "visit_application"
    /\ UNCHANGED <<term, variable, value, bound_variables>>
    /\ UNCHANGED normVars

NextDefer == DeferredAbstraction \/ DeferredApplication

SpecDefer == InitDefer /\ [][NextDefer]_vars

-----------------------------------------------------------------------------
(* Specification of the renamings as both of their consumers see them: a    *)
(* normalisation whose steps are pulled, or a traced substitution.         *)

InitAlpha == Init \/ InitTrace

NextAlpha == Next \/ NextTrace

SpecAlpha == InitAlpha /\ [][NextAlpha]_vars

-----------------------------------------------------------------------------
(* Reference notions used to state the properties: the locally nameless    *)
(* (de Bruijn) form of a term, in which alpha-equivalent terms are equal,  *)
(* and substitution on that form, which cannot capture.                    *)

FreeName(n) == [tag |-> "free", name |-> n]

BoundIndex(i) == [tag |-> "index", index |-> i]

Lam(b) == [tag |-> "lam", body |-> b]

App(f, a) == [tag |-> "dapp", fun |-> f, arg |-> a]

\* position of the innermost binder of name n in env (innermost first), counted from 0
IndexOf(n, env) == (CHOOSE i \in 1..Len(env) :
                        /\ env[i] = n
                        /\ \A j \in 1..(i - 1) : env[j] # n) - 1

RECURSIVE ToDB(_, _)
ToDB(t, env) ==
    CASE isVariable(t) ->
            IF \E i \in 1..Len(env) : env[i] = t.name
                THEN BoundIndex(IndexOf(t.name, env))
                ELSE FreeName(t.name)
      [] isAbstraction(t) -> Lam(ToDB(t.body, <<t.bound>> \o env))
      [] isApplication(t) -> App(ToDB(t.abstraction, env), ToDB(t.argument, env))

Nameless(t) == ToDB(t, <<>>)

AlphaEquivalent(a, b) == Nameless(a) = Nameless(b)

\* d[n := s] for a free name n and a term s without dangling indices
RECURSIVE ReplaceFreeName(_, _, _)
ReplaceFreeName(d, n, s) ==
    CASE d.tag = "free" -> IF d.name = n THEN s ELSE d
      [] d.tag = "index" -> d
      [] d.tag = "lam" -> Lam(ReplaceFreeName(d.body, n, s))
      [] d.tag = "dapp" ->
            App(ReplaceFreeName(d.fun, n, s), ReplaceFreeName(d.arg, n, s))

\* indices >= cutoff moved by delta
RECURSIVE Shift(_, _, _)
Shift(d, delta, cutoff) ==
    CASE d.tag = "free" -> d
      [] d.tag = "index" -> IF d.index >= cutoff THEN BoundIndex(d.index + delta) ELSE d
      [] d.tag = "lam" -> Lam(Shift(d.body, delta, cutoff + 1))
      [] d.tag = "dapp" -> App(Shift(d.fun, delta, cutoff), Shift(d.arg, delta, cutoff))

\* d[j := s]
RECURSIVE SubstIndex(_, _, _)
SubstIndex(d, j, s) ==
    CASE d.tag = "free" -> d
      [] d.tag = "index" -> IF d.index = j THEN s ELSE d
      [] d.tag = "lam" -> Lam(SubstIndex(d.body, j + 1, Shift(s, 1, 0)))
      [] d.tag = "dapp" -> App(SubstIndex(d.fun, j, s), SubstIndex(d.arg, j, s))

\* the contractum of the redex (Lam(body) arg)
Contract(body, arg) == Shift(SubstIndex(body, 0, Shift(arg, 1, 0)), -1, 0)

RECURSIVE HasRedex(_)
HasRedex(d) ==
    CASE d.tag = "free" -> FALSE
      [] d.tag = "index" -> FALSE
      [] d.tag = "lam" -> HasRedex(d.body)
      [] d.tag = "dapp" -> d.fun.tag = "lam" \/ HasRedex(d.fun) \/ HasRedex(d.arg)

\* d with its leftmost-outermost redex contracted (d itself if it has none)
RECURSIVE LeftmostOutermost(_)
LeftmostOutermost(d) ==
    CASE d.tag = "free" -> d
      [] d.tag = "index" -> d
      [] d.tag = "lam" -> Lam(LeftmostOutermost(d.body))
      [] d.tag = "dapp" ->
            IF d.fun.tag = "lam"
                THEN Contract(d.fun.body, d.arg)
                ELSE IF HasRedex(d.fun)
                    THEN App(LeftmostOutermost(d.fun), d.arg)
                    ELSE App(d.fun, LeftmostOutermost(d.arg))

\* how many leftmost-outermost contractions the reference normal form is looked for
RefFuel == 12

\* d reaches a term without redexes in at most fuel leftmost-outermost contractions
RECURSIVE NormalisesWithin(_, _)
NormalisesWithin(d, fuel) ==
    IF ~HasRedex(d)
        THEN TRUE
        ELSE /\ fuel > 0
             /\ \E next_d \in {LeftmostOutermost(d)} : NormalisesWithin(next_d, fuel - 1)

HasNormalForm(t) == NormalisesWithin(Nameless(t), RefFuel)

\* t with every free occurrence of var replaced by val, binders untouched
RECURSIVE ReplaceFree(_, _, _)
ReplaceFree(t, var, val) ==
    CASE isVariable(t) -> IF t.name = var THEN val ELSE t
      [] isAbstraction(t) ->
            IF t.bound = var
                THEN t
                ELSE Abstraction(t.bound, ReplaceFree(t.body, var, val))
      [] isApplication(t) ->
            Application(ReplaceFree(t.abstraction, var, val),
                        ReplaceFree(t.argument, var, val))

\* some free occurrence of var in t lies below a binder whose name is in names
\* (below says whether such a binder encloses t already)
RECURSIVE OccursBelowBinder(_, _, _, _)
OccursBelowBinder(t, var, names, below) ==
    CASE isVariable(t) -> t.name = var /\ below
      [] isAbstraction(t) ->
            /\ t.bound # var
            /\ OccursBelowBinder(t.body, var, names, below \/ t.bound \in names)
      [] isApplication(t) ->
            \/ OccursBelowBinder(t.abstraction, var, names, below)
            \/ OccursBelowBinder(t.argument, var, names, below)

\* a name that no input term and no fresh name can be
Marker == "#"

RECURSIVE Fill(_, _)
Fill(t, val) ==
    CASE isVariable(t) -> IF t.name = Marker THEN val ELSE t
      [] isAbstraction(t) -> Abstraction(t.bound, Fill(t.body, val))
      [] isApplication(t) ->
            Application(Fill(t.abstraction, val), Fill(t.argument, val))

\* the renaming substitution run with the marker as value and the free
\* variables of val: the marker shows where val is inserted
Marked(t, var, val) ==
    Deferrable_accept(
        t, CountingSubstitution(var, Variable(Marker), free_variables(val)))

-----------------------------------------------------------------------------
(* Properties of normalisation *)

\* C1: every BETA step's term is the preceding term of the sequence with its
\* leftmost-outermost redex contracted, up to the names of bound variables.
C1_NormalOrder ==
    (yielded /\ conversion = "BETA") =>
        /\ HasRedex(Nameless(prevTerm))
        /\ Nameless(lastTerm) = LeftmostOutermost(Nameless(prevTerm))

\* C2: for an input that has a beta normal form the step sequence ends.
C2_NormalFormIsFound == HasNormalForm(input) ~> (status = "exhausted")

\* C3: when the step sequence has ended after at least one step, the term of
\* the last step is in beta normal form.
C3_LastStepIsNormal ==
    (status = "exhausted" /\ yielded) => is_beta_normal_form(lastTerm)

C3_Witness ==
    /\ status = "exhausted"
    /\ yielded
    /\ input = CollisionTerm
    /\ conversion = "BETA"

\* C4: for an input in beta normal form no step is ever yielded, whichever
\* shape the input has.
C4_NormalInputYieldsNothing ==
    is_beta_normal_form(input) =>
        /\ ~yielded
        /\ status = "running" => next(stack).out = NoTerm

C4_Witness ==
    /\ status = "exhausted"
    /\ ~yielded
    /\ isApplication(input)
    /\ isApplication(input.abstraction)
    /\ isAbstraction(input.argument)

\* C5: normalising OMEGA never ends: a next step always exists, every step
\* is a BETA step and its term equals OMEGA, which is not beta normal.
C5_OmegaNeverEnds ==
    input = OMEGA =>
        /\ status = "running"
        /\ next(stack).out # NoTerm
        /\ ENABLED PullStep
        /\ ~is_beta_normal_form(input)
        /\ yielded => (conversion = "BETA" /\ lastTerm = input)

C5_Witness ==
    /\ input = OMEGA
    /\ yielded
    /\ prevTerm = OMEGA
    /\ lastTerm = OMEGA

-----------------------------------------------------------------------------
(* Properties of the substitution visitors *)

\* C6: the renaming substitution never captures: in its result no inserted
\* copy of value lies in the scope of a binder named like a free variable of
\* value; the binder that would capture is renamed (y := x in \x.y gives \x1.x).
C6_RenamingNeverCaptures ==
    operation = "counting" =>
        /\ ~result.raised
        /\ Fill(Marked(term, variable, value), value) = result.term
        /\ ~OccursBelowBinder(Marked(term, variable, value), Marker,
                              free_variables(value), FALSE)
        /\ (term = Abstraction("x", Variable("y")) /\ variable = "y"
               /\ value = Variable("x"))
              => result.term = Abstraction("x1", Variable("x"))

C6_Witness ==
    /\ operation = "counting"
    /\ term = Abstraction("x", Variable("y"))
    /\ variable = "y"
    /\ value = Variable("x")
    /\ result.term = Abstraction("x1", Variable("x"))

\* C7: the result of the renaming substitution is alpha-equivalent to the
\* capture-avoiding substitution term[variable := value]; in particular it is
\* alpha-equivalent to term when variable has no free occurrence in term.
C7_RenamingIsCaptureAvoiding ==
    operation = "counting" =>
        Nameless(result.term)
            = ReplaceFreeName(Nameless(term), variable, Nameless(value))

\* C8: Term.substitute raises CollisionError exactly when a free occurrence
\* of variable lies inside an abstraction binding a free variable of value.
C8_CollisionExactlyAtSites ==
    operation = "checked" =>
        (result.raised
            <=> OccursBelowBinder(term, variable, free_variables(value), FALSE))

C8_Witness ==
    /\ operation = "checked"
    /\ ~result.raised
    /\ free_variables(value) \cap bound_variables_of(term) # {}
    /\ variable \in free_variables(term)

\* C9: after every accept call on one CheckedSubstitution, returned or
\* raised, bound_variables is empty again and the outcome is that of a fresh
\* visitor.
C9_CheckedVisitorReusable ==
    operation = "checked" =>
        /\ bound_variables = EmptyDict
        /\ result.raised = substitute(term, variable, value).raised
        /\ result.term = substitute(term, variable, value).term

C9_Witness ==
    /\ Len(history) = 2
    /\ history[1]
    /\ ~history[2]
    /\ variable \in free_variables(term)
    /\ bound_variables = EmptyDict

\* C10: when Term.substitute returns, the result is term with exactly the
\* free occurrences of variable replaced by value, all binders keeping their
\* names; without a free occurrence the result equals term.
C10_SubstituteReplacesFreeOccurrences ==
    (operation = "checked" /\ ~result.raised) =>
        /\ result.term = ReplaceFree(term, variable, value)
        /\ variable \notin free_variables(term) => result.term = term

C10_Witness ==
    /\ operation = "checked"
    /\ ~result.raised
    /\ term = Application(Abstraction("x", Variable("x")), Variable("x"))
    /\ variable = "x"
    /\ value = Variable("y")
    /\ result.term = Application(Abstraction("x", Variable("x")), Variable("y"))

-----------------------------------------------------------------------------
(* Order of the steps of one contraction *)

\* the first k steps of an iterator (all of them if it ends before)
RECURSIVE Pulls(_, _)
Pulls(frames, k) ==
    IF k = 0
        THEN <<>>
        ELSE The({IF n.out = NoTerm THEN <<>> ELSE <<n.out>> \o Pulls(n.stack, k - 1)
                  : n \in {next(frames)}})

Take(seq, k) == SubSeq(seq, 1, IF Len(seq) < k THEN Len(seq) ELSE k)

\* the steps that contracting the redex (\bound.body) argument is to give:
\* the renamings of the traced substitution on the whole application, the
\* substitution's result, then the steps of normalising that result
ContractionSteps(bound, body, argument, k) ==
    LET renamings ==
            Tracing_accept(body, Counting_from_substitution(bound, argument)).yields
        substituted ==
            Deferrable_accept(body, Counting_from_substitution(bound, argument))
    IN  Take([i \in 1..Len(renamings) |->
                 Step("ALPHA", Application(Abstraction(bound, renamings[i]), argument))]
                 \o <<Step("BETA", substituted)>>
                 \o Pulls(<<AcceptFrame(substituted)>>, k),
             k)

\* the same below the abstractions and variable heads that enclose the redex
RECURSIVE ExpectedSteps(_, _)
ExpectedSteps(t, k) ==
    CASE isAbstraction(t) ->
            The({[i \in 1..Len(inner) |->
                     Step(inner[i].conversion, Abstraction(t.bound, inner[i].term))]
                 : inner \in {ExpectedSteps(t.body, k)}})
      [] isApplication(t) /\ isAbstraction(t.abstraction) ->
            ContractionSteps(t.abstraction.bound, t.abstraction.body, t.argument, k)
      [] isApplication(t) /\ ~isAbstraction(t.abstraction) ->
            The({[i \in 1..Len(inner) |->
                     Step(inner[i].conversion, Application(t.abstraction, inner[i].term))]
                 : inner \in {ExpectedSteps(t.argument, k)}})

\* C11: when a redex is contracted, the renamings of the traced substitution
\* come first, in their order, each as an ALPHA step holding the whole
\* application with its binder and argument; then one BETA step holds the
\* substitution's result; then come the steps of normalising that result.
C11_AlphaStepsThenBeta ==
    input \in RedexInputs =>
        /\ history = ExpectedSteps(input, Len(history))
        /\ status = "exhausted" =>
               Len(ExpectedSteps(input, Len(history) + 1)) = Len(history)

C11_Witness ==
    /\ input \in RedexInputs
    /\ isApplication(input)
    /\ isAbstraction(input.abstraction)
    /\ Len(history) = 4
    /\ status = "exhausted"
    /\ history[1].conversion = "ALPHA"
    /\ history[2].conversion = "ALPHA"
    /\ history[3].conversion = "BETA"

-----------------------------------------------------------------------------
(* Properties of the tracing decorator and of the fresh-name policy *)

\* C12: the generator of the tracing decorator returns, once exhausted, the
\* term that the substitution it wraps returns for the same term.
C12_TracingReturnsSubstitution ==
    operation = "tracing" =>
        result.term =
            Deferrable_accept(term, Counting_from_substitution(variable, value))

C12_Witness ==
    /\ operation = "tracing"
    /\ history # <<>>
    /\ isApplication(term)
    /\ result.term # term
    /\ variable \in free_variables(term)

\* a position in a term: the fields to follow from the root
RECURSIVE BinderAt(_, _)
BinderAt(t, path) ==
    IF path = <<>>
        THEN t.bound
        ELSE CASE Head(path) = "body" -> BinderAt(t.body, Tail(path))
               [] Head(path) = "abstraction" -> BinderAt(t.abstraction, Tail(path))
               [] Head(path) = "argument" -> BinderAt(t.argument, Tail(path))

\* the positions of the abstractions of t whose bound name differs in r, a
\* term that has an abstraction wherever t has one: parents before children,
\* the abstraction of an application before its argument
RECURSIVE RenamedBinders(_, _)
RenamedBinders(t, r) ==
    CASE isVariable(t) -> <<>>
      [] isAbstraction(t) ->
            The({(IF r.bound # t.bound THEN << <<>> >> ELSE <<>>)
                     \o [i \in 1..Len(inner) |-> <<"body">> \o inner[i]]
                 : inner \in {RenamedBinders(t.body, r.body)}})
      [] isApplication(t) ->
            The({[i \in 1..Len(left) |-> <<"abstraction">> \o left[i]]
                     \o [i \in 1..Len(right) |-> <<"argument">> \o right[i]]
                 : left \in {RenamedBinders(t.abstraction, r.abstraction)},
                   right \in {RenamedBinders(t.argument, r.argument)}})

\* t with the abstraction at path renamed to new: its binder and the free
\* occurrences of the old name in its body, nothing else
RECURSIVE RenameAt(_, _, _)
RenameAt(t, path, new) ==
    IF path = <<>>
        THEN Abstraction(new, ReplaceFree(t.body, t.bound, Variable(new)))
        ELSE CASE Head(path) = "body" ->
                    Abstraction(t.bound, RenameAt(t.body, Tail(path), new))
               [] Head(path) = "abstraction" ->
                    Application(RenameAt(t.abstraction, Tail(path), new), t.argument)
               [] Head(path) = "argument" ->
                    Application(t.abstraction, RenameAt(t.argument, Tail(path), new))

\* C13: the tracing generator yields one term per renamed binder, parents
\* before children and the abstraction side before the argument side; each
\* yielded term is the visited term with the renamings up to that one and
\* nothing else changed; without a renamed binder nothing is yielded.
C13_OneYieldPerRenaming ==
    operation = "tracing" =>
        LET paths == RenamedBinders(term, result.term)
        IN  /\ Len(history) = Len(paths)
            /\ \A i \in 1..Len(history) :
                   history[i] =
                       RenameAt(IF i = 1 THEN term ELSE history[i - 1],
                                paths[i],
                                BinderAt(result.term, paths[i]))

C13_Witness ==
    /\ operation = "tracing"
    /\ Len(history) = 2
    /\ isApplication(term)
    /\ isAbstraction(term.abstraction)
    /\ isAbstraction(term.argument)
    /\ history[1].abstraction # term.abstraction
    /\ history[1].argument = term.argument
    /\ history[2].argument # term.argument

\* the candidates of the fresh-name search that the properties look at
MaxIndex == 3

\* C14: visiting an abstraction whose binder b is not the substitution's
\* variable, CountingSubstitution renames the binder iff b is free in value;
\* the new name is b followed by the least i >= 1 such that the name is not
\* bound in the body, not free in the abstraction and not free in value, and
\* the renamed abstraction has the free occurrences of b in its body replaced
\* by the new name.
C14_FreshNamePolicy ==
    (operation = "tracing" /\ isAbstraction(term) /\ term.bound # variable) =>
        LET b == term.bound
            used == bound_variables_of(term.body)
                        \cup free_variables(term)
                        \cup free_variables(value)
            renamed == history # <<>> /\ history[1].bound # b
        IN  /\ renamed <=> b \in free_variables(value)
            /\ renamed <=> result.term.bound # b
            /\ renamed =>
                   \E i \in 1..MaxIndex :
                       /\ b \o ToString(i) \notin used
                       /\ \A j \in 1..(i - 1) : b \o ToString(j) \in used
                       /\ result.term.bound = b \o ToString(i)
                       /\ history[1] =
                              Abstraction(
                                  b \o ToString(i),
                                  ReplaceFree(term.body, b, Variable(b \o ToString(i))))

C14_Witness ==
    /\ operation = "tracing"
    /\ isAbstraction(term)
    /\ term.bound = "x"
    /\ variable = "y"
    /\ "x1" \in free_variables(term)
    /\ "x" \in free_variables(term.body)
    /\ history # <<>>
    /\ history[1].bound = "x2"

-----------------------------------------------------------------------------
(* Properties of the methods of a term *)

\* the positions of the subterms of t, one per occurrence
RECURSIVE Paths(_)
Paths(t) ==
    CASE isVariable(t) -> {<<>>}
      [] isAbstraction(t) -> {<<>>} \cup {<<"body">> \o p : p \in Paths(t.body)}
      [] isApplication(t) ->
            {<<>>} \cup {<<"abstraction">> \o p : p \in Paths(t.abstraction)}
                   \cup {<<"argument">> \o p : p \in Paths(t.argument)}

RECURSIVE SubtermAt(_, _)
SubtermAt(t, path) ==
    IF path = <<>>
        THEN t
        ELSE CASE Head(path) = "body" -> SubtermAt(t.body, Tail(path))
               [] Head(path) = "abstraction" -> SubtermAt(t.abstraction, Tail(path))
               [] Head(path) = "argument" -> SubtermAt(t.argument, Tail(path))

IsProperPrefix(p, q) == Len(p) < Len(q) /\ SubSeq(q, 1, Len(p)) = p

\* post-order: a subterm comes before the terms that contain it, and what is
\* in the abstraction of an application before what is in its argument
Precedes(p, q) ==
    \/ IsProperPrefix(q, p)
    \/ \E i \in 1..Len(p) :
           /\ i <= Len(q)
           /\ SubSeq(p, 1, i - 1) = SubSeq(q, 1, i - 1)
           /\ p[i] = "abstraction"
           /\ q[i] = "argument"

PostOrderIndex(t, p) == Cardinality({q \in Paths(t) : Precedes(q, p)}) + 1

\* C15: iterating a term yields its subterms in post-order, one element per
\* occurrence: what is below a term before the term, the abstraction of an
\* application before its argument, the term itself last.
C15_WalkIsPostOrder ==
    operation = "iter" =>
        /\ Len(history) = Cardinality(Paths(term))
        /\ Len(history) = Size(term)
        /\ history[Len(history)] = term
        /\ \A p \in Paths(term) :
               history[PostOrderIndex(term, p)] = SubtermAt(term, p)

C15_Witness ==
    /\ operation = "iter"
    /\ isApplication(term)
    /\ isAbstraction(term.abstraction)
    /\ term.argument = term.abstraction
    /\ Len(history) = 5
    /\ history[2] = history[4]

\* C16: is_beta_normal_form() is true iff no subterm that iterating the term
\* yields is an Application whose abstraction is an Abstraction.
C16_NormalIffNoRedexSubterm ==
    operation = "is_beta_normal_form" =>
        (result.value = TRUE <=>
            \A i \in 1..Len(iter(term)) :
                ~(isApplication(iter(term)[i])
                      /\ isAbstraction(iter(term)[i].abstraction)))

C16_Witness ==
    /\ operation = "is_beta_normal_form"
    /\ result.value = FALSE
    /\ isAbstraction(term)
    /\ isApplication(term.body)
    /\ isAbstraction(term.body.abstraction)

\* C17: alpha_conversion(new) with new different from the bound name raises
\* CollisionError if new is free in the body or if a free occurrence of the
\* bound name lies below a binder of new; otherwise it returns the
\* abstraction over new whose body has the free occurrences of the bound
\* name replaced by new.
C17_AlphaConversionOutcome ==
    (operation = "alpha_conversion" /\ variable # term.bound) =>
        IF \/ variable \in free_variables(term.body)
           \/ OccursBelowBinder(term.body, term.bound, {variable}, FALSE)
            THEN result = Raised("CollisionError")
            ELSE result =
                     Returned(
                         Abstraction(
                             variable,
                             ReplaceFree(term.body, term.bound, Variable(variable))))

C17_Witness ==
    /\ operation = "alpha_conversion"
    /\ variable # term.bound
    /\ ~result.raised
    /\ variable \in bound_variables_of(term.body)
    /\ term.bound \in free_variables(term.body)
    /\ result.value # Abstraction(variable, term.body)

\* C18: when alpha_conversion(n) returns, converting its result back to the
\* first bound name returns the abstraction one started with; and
\* alpha_conversion to the bound name itself returns the abstraction.
C18_AlphaConversionRoundTrip ==
    /\ operation = "alpha_conversion_back" => result = Returned(term)
    /\ (operation = "alpha_conversion" /\ variable = term.bound) =>
           result = Returned(term)

C18_Witness ==
    /\ operation = "alpha_conversion_back"
    /\ variable # term.bound
    /\ term.bound \in free_variables(term.body)
    /\ variable \in bound_variables_of(term.body)
    /\ result.value = term

\* C19: eta_reduction() of Abstraction(x, body) returns f exactly when body
\* is Application(f, Variable(x)) and x is not free in f; for every other
\* abstraction it raises ValueError.
C19_EtaReductionOutcome ==
    operation = "eta_reduction" =>
        IF /\ isApplication(term.body)
           /\ term.body.argument = Variable(term.bound)
           /\ term.bound \notin free_variables(term.body.abstraction)
            THEN result = Returned(term.body.abstraction)
            ELSE result = Raised("ValueError")

C19_Witness ==
    /\ operation = "eta_reduction"
    /\ ~result.raised
    /\ isAbstraction(result.value)

\* C20: beta_reduction() of Application(Abstraction(x, body), arg), when it
\* returns, gives body with the free occurrences of x replaced by arg, the
\* occurrences below an abstraction that binds x again left alone; a body
\* without a free x is returned as it is, whatever it binds.
C20_BetaReductionReplacesFree ==
    (operation = "beta_reduction" /\ isAbstraction(term.abstraction)) =>
        /\ ~result.raised =>
               result.value =
                   ReplaceFree(term.abstraction.body, term.abstraction.bound,
                               term.argument)
        /\ term.abstraction.bound \notin free_variables(term.abstraction.body) =>
               result = Returned(term.abstraction.body)

C20_Witness ==
    /\ operation = "beta_reduction"
    /\ isAbstraction(term.abstraction)
    /\ isAbstraction(term.abstraction.body)
    /\ term.abstraction.body.bound = term.abstraction.bound
    /\ term.abstraction.body.body = Variable(term.abstraction.bound)
    /\ isVariable(term.argument)
    /\ term.argument.name # term.abstraction.bound
    /\ result = Returned(term.abstraction.body)

\* C21: beta_reduction raises the plain ValueError exactly when the
\* abstraction position of the application does not hold an abstraction,
\* be it a variable or an application, even one that reduces to an
\* abstraction, and then returns no term; on a redex the only error it can
\* raise is the CollisionError of the checked substitution.
C21_ValueErrorIffNotRedex ==
    operation = "beta_reduction" =>
        /\ result = Raised("ValueError") <=> ~isAbstraction(term.abstraction)
        /\ result.error = "ValueError" <=> ~is_redex(term)
        /\ isAbstraction(term.abstraction) =>
               \/ result.error = "none" /\ ~result.raised
               \/ result = Raised("CollisionError")

C21_Witness ==
    /\ operation = "beta_reduction"
    /\ term = HeadRedexTerm
    /\ is_redex(term.abstraction)
    /\ result = Raised("ValueError")

-----------------------------------------------------------------------------
(* Properties of skip_intermediate; its loop is the consumer of Spec, its  *)
(* local variable result is lastTerm and it returns when the status       *)
(* becomes "exhausted".                                                    *)

MaxLoop == 64

\* C22: skip_intermediate returns the term of the last step of the
\* normalisation sequence of its argument and the argument itself when the
\* sequence is empty; it has returned only when the whole sequence was
\* consumed, so it has not returned for OMEGA, whose sequence is infinite.
C22_SkipIntermediateReturnsLast ==
    /\ status = "exhausted" =>
           LET steps == Pulls(<<AcceptFrame(input)>>, MaxLoop)
           IN  /\ Len(steps) < MaxLoop
               /\ lastTerm = IF steps = <<>> THEN input ELSE steps[Len(steps)].term
               /\ yielded <=> steps # <<>>
    /\ input = OMEGA => status = "running"

C22_Witness ==
    /\ status = "exhausted"
    /\ input = YKTerm
    /\ yielded
    /\ lastTerm # input
    /\ lastTerm # prevTerm

-----------------------------------------------------------------------------
(* Properties of the unsafe substitution.                                  *)

\* C23: the unsafe substitution never raises and never renames a binder:
\* its result is the term with every free occurrence of the variable
\* replaced by the value and every binder left as it was; an abstraction
\* that binds the variable is returned unchanged; a free variable of the
\* value may be captured by a binder of the term.
C23_UnsafeReplacesWithoutProtection ==
    operation = "unsafe" =>
        /\ ~result.raised
        /\ result.term = ReplaceFree(term, variable, value)
        /\ (isAbstraction(term) /\ term.bound = variable) => result.term = term
        /\ (isAbstraction(term) /\ term.bound # variable) =>
               /\ isAbstraction(result.term)
               /\ result.term.bound = term.bound
               /\ result.term.body = ReplaceFree(term.body, variable, value)

C23_Witness ==
    /\ operation = "unsafe"
    /\ term = Abstraction("x", Variable("y"))
    /\ variable = "y"
    /\ value = Variable("x")
    /\ result.term = Abstraction("x", Variable("x"))
    /\ ~AlphaEquivalent(
            result.term,
            Deferrable_accept(term, Counting_from_substitution(variable, value)))

-----------------------------------------------------------------------------
(* Properties of the dictionary of bound names during a checked            *)
(* substitution.                                                           *)

\* for each name the number of abstractions binding it that enclose the
\* subterm of t at path; a name that none of them binds is absent
EnclosingBinders(t, path) ==
    LET binders == {i \in 0..(Len(path) - 1) :
                       isAbstraction(SubtermAt(t, SubSeq(path, 1, i)))}
        nameAt(i) == SubtermAt(t, SubSeq(path, 1, i)).bound
    IN  [n \in {nameAt(i) : i \in binders} |->
            Cardinality({i \in binders : nameAt(i) = n})]

\* the number of finally blocks on the stack that are to unbind n
EnteredBinders(n) ==
    Cardinality({i \in DOMAIN stack :
                    stack[i].kind = "finally" /\ stack[i].name = n})

\* C24: whenever a node is visited during a checked substitution,
\* bound_variables maps every name to the number of abstractions binding it
\* that enclose the node, and holds no name with the number zero; a name
\* bound at several depths stays present until the outermost of its
\* abstractions is left, on return and on error alike.
C24_BoundVariablesCountEnclosing ==
    /\ (status = "running" /\ stack # <<>> /\ Head(stack).kind = "accept") =>
           /\ Head(stack).term = SubtermAt(term, Head(stack).path)
           /\ bound_variables = EnclosingBinders(term, Head(stack).path)
    /\ \A n \in Names :
           IF n \in DOMAIN bound_variables
               THEN bound_variables[n] = EnteredBinders(n) /\ bound_variables[n] > 0
               ELSE EnteredBinders(n) = 0

\* \y.((\y.x) x): the argument is visited after the inner abstraction was left
C24_Witness ==
    /\ term = Abstraction("y",
                  Application(Abstraction("y", Variable("x")), Variable("x")))
    /\ variable = "x"
    /\ status = "running"
    /\ stack # <<>>
    /\ Head(stack).kind = "accept"
    /\ Head(stack).path = <<"body", "argument">>
    /\ bound_variables = [n \in {"y"} |-> 1]

-----------------------------------------------------------------------------
(* Properties of the deferrable protocol.                                  *)

\* C25: a None continuation stops the descent: visit_abstraction returns
\* the deferred abstraction unchanged, its body not visited, when the body's
\* continuation is None, and visit_application leaves a child as it is when
\* that child's continuation is None, while a child whose continuation is a
\* visitor is visited by it.
C25_NoneStopsDescent ==
    /\ operation = "visit_abstraction" =>
           IF history[1] = None
               THEN result.term = term
               ELSE result.term =
                        Abstraction(term.bound,
                                    ReplaceFree(term.body, variable, value))
    /\ operation = "visit_application" =>
           /\ isApplication(result.term)
           /\ result.term.abstraction =
                  IF history[1] = None
                      THEN term.abstraction
                      ELSE ReplaceFree(term.abstraction, variable, value)
           /\ result.term.argument =
                  IF history[2] = None
                      THEN term.argument
                      ELSE ReplaceFree(term.argument, variable, value)

\* the abstraction is visited and changes, the argument holds the variable
\* as well and stays as it is
C25_Witness ==
    /\ operation = "visit_application"
    /\ history[1] # None
    /\ history[2] = None
    /\ variable \in free_variables(term.abstraction)
    /\ variable \in free_variables(term.argument)
    /\ value # Variable(variable)
    /\ result.term.abstraction # term.abstraction
    /\ result.term.argument = term.argument

-----------------------------------------------------------------------------
(* Properties of the steps of a normalisation as terms.                    *)

\* C26: the term of every ALPHA step of a normalisation is alpha-equivalent
\* to the term before it (the input for a first step), and so is every term
\* that the tracing decorator yields: only binders and their occurrences
\* are renamed, no occurrence of the variable is replaced by the value.
C26_AlphaStepsAreAlphaEquivalent ==
    /\ (yielded /\ conversion = "ALPHA") =>
           /\ AlphaEquivalent(lastTerm, prevTerm)
           /\ free_variables(lastTerm) = free_variables(prevTerm)
    /\ operation = "tracing" =>
           \A i \in 1..Len(history) :
               /\ AlphaEquivalent(history[i], IF i = 1 THEN term ELSE history[i - 1])
               /\ free_variables(history[i]) = free_variables(term)

\* an ALPHA step that is not the first step and renames a binder
C26_Witness ==
    /\ yielded
    /\ conversion = "ALPHA"
    /\ prevTerm # input
    /\ lastTerm # prevTerm
    /\ AlphaEquivalent(lastTerm, input) = AlphaEquivalent(prevTerm, input)

\* C27: the free variables of the term of every step are free variables of
\* the input: normalisation introduces no free variable, and the fresh names
\* that renaming creates occur bound only.
C27_NoNewFreeVariables ==
    /\ free_variables(lastTerm) \subseteq free_variables(input)
    /\ free_variables(prevTerm) \subseteq free_variables(input)
    /\ status = "running" =>
           LET n == next(stack)
           IN  n.out # NoTerm =>
                   free_variables(n.out.term) \subseteq free_variables(input)

\* an ALPHA step whose term binds a name that does not occur in the input
C27_Witness ==
    /\ yielded
    /\ conversion = "ALPHA"
    /\ free_variables(input) # {}
    /\ bound_variables_of(lastTerm)
           \ (bound_variables_of(input) \cup free_variables(input)) # {}
    /\ free_variables(lastTerm) = free_variables(input)

-----------------------------------------------------------------------------
(* Properties that relate the normaliser to the checked substitution.      *)

\* the leftmost outermost redex of a term that is not beta normal
RECURSIVE LeftmostRedex(_)
LeftmostRedex(t) ==
    CASE isAbstraction(t) -> LeftmostRedex(t.body)
      [] isApplication(t) /\ isAbstraction(t.abstraction) -> t
      [] isApplication(t) /\ ~isAbstraction(t.abstraction) ->
            IF is_beta_normal_form(t.abstraction)
                THEN LeftmostRedex(t.argument)
                ELSE LeftmostRedex(t.abstraction)

\* the term with its leftmost outermost redex replaced by what
\* Application.beta_reduction returns for it
RECURSIVE ContractLeftmost(_)
ContractLeftmost(t) ==
    CASE isAbstraction(t) -> Abstraction(t.bound, ContractLeftmost(t.body))
      [] isApplication(t) /\ isAbstraction(t.abstraction) -> beta_reduction(t).value
      [] isApplication(t) /\ ~isAbstraction(t.abstraction) ->
            IF is_beta_normal_form(t.abstraction)
                THEN Application(t.abstraction, ContractLeftmost(t.argument))
                ELSE Application(ContractLeftmost(t.abstraction), t.argument)

\* no binder of the body of the redex binds a free variable of its argument
CollisionFree(redex) ==
    bound_variables_of(redex.abstraction.body)
        \cap free_variables(redex.argument) = {}

\* C28: when the redex that is contracted next binds, in the body of its
\* abstraction, no free variable of its argument, the normaliser yields no
\* ALPHA step for the contraction, Application.beta_reduction succeeds on
\* the redex, and the term of the BETA step is the term with the redex
\* replaced by what beta_reduction returns.
C28_CollisionFreeRedexAgreesWithBetaReduction ==
    \A i \in 1..Len(history) :
        LET before == IF i = 1 THEN input ELSE history[i - 1].term
        IN  (/\ i = 1 \/ history[i - 1].conversion = "BETA"
             /\ ~is_beta_normal_form(before)
             /\ CollisionFree(LeftmostRedex(before))) =>
                /\ ~beta_reduction(LeftmostRedex(before)).raised
                /\ history[i] = Step("BETA", ContractLeftmost(before))

\* two contractions of collision-free redexes, the first one of a redex whose
\* body holds a binder
C28_Witness ==
    /\ Len(history) >= 2
    /\ history[1].conversion = "BETA"
    /\ history[2].conversion = "BETA"
    /\ CollisionFree(LeftmostRedex(input))
    /\ CollisionFree(LeftmostRedex(history[1].term))
    /\ bound_variables_of(LeftmostRedex(input).abstraction.body) # {}
    /\ free_variables(LeftmostRedex(input).argument) # {}

\* C29: whenever the checked substitution returns a term, the unsafe
\* substitution of the same variable and value on the same term returns an
\* equal term; the two differ only where the checked one raises.
C29_CheckedAgreesWithUnsafe ==
    (operation = "checked" /\ ~result.raised) =>
        result.term =
            Deferrable_accept(term, Unsafe_from_substitution(variable, value))

\* a substitution that succeeds and changes the body of an abstraction whose
\* body holds a binder, the value having a free variable
C29_Witness ==
    /\ operation = "checked"
    /\ ~result.raised
    /\ result.term # term
    /\ isAbstraction(term)
    /\ term.bound # variable
    /\ free_variables(value) # {}
    /\ bound_variables_of(term.body) # {}

\* C30: pulling steps from a normalisation never fails: what a pull gives is
\* an ALPHA or a BETA step holding a term (or the end of the sequence),
\* and where Application.beta_reduction raises the CollisionError of the
\* checked substitution for the redex to contract, the normaliser yields
\* an ALPHA step that renames a binder instead.
C30_NormalisationNeverRaises ==
    /\ conversion \in {"NONE", "ALPHA", "BETA"}
    /\ \A i \in 1..Len(history) :
           /\ history[i].conversion \in {"ALPHA", "BETA"}
           /\ isVariable(history[i].term)
                  \/ isAbstraction(history[i].term)
                  \/ isApplication(history[i].term)
           /\ LET before == IF i = 1 THEN input ELSE history[i - 1].term
              IN  (/\ i = 1 \/ history[i - 1].conversion = "BETA"
                   /\ beta_reduction(LeftmostRedex(before)).raised) =>
                      /\ beta_reduction(LeftmostRedex(before)) = Raised("CollisionError")
                      /\ history[i].conversion = "ALPHA"
    /\ status = "running" =>
           LET n == next(stack)
           IN  n.out # NoTerm => n.out.conversion \in {"ALPHA", "BETA"}

\* a redex on which beta_reduction raises CollisionError is contracted by
\* the normaliser with a renaming, and the sequence is pulled to its end
C30_Witness ==
    /\ isApplication(input)
    /\ is_redex(input)
    /\ beta_reduction(input) = Raised("CollisionError")
    /\ status = "exhausted"
    /\ Len(history) >= 2
    /\ history[1].conversion = "ALPHA"
    /\ history[2].conversion = "BETA"
    /\ is_beta_normal_form(lastTerm)

====
